---- MODULE Spec2Model ----
(***************************************************************************)
(* Model of the installation-guidance monitor of agents/agent3/agent3.py:  *)
(* run_igqa (the main thread: guide loading, video opening, the tick loop) *)
(* and record_audio (the daemon thread feeding audio_queue).               *)
(*                                                                         *)
(* The main thread is cut at every access to the shared queue.Queue        *)
(* (empty(), get()), the producer at its put(); steps that touch only      *)
(* thread-local state are merged into the neighbouring step.               *)
(***************************************************************************)
EXTENDS Integers, Sequences, FiniteSets, TLC

(* ------------------------------ bounds --------------------------------- *)
\* longest guide drawn for the "steps" list of the guide file
MaxSteps == 2
\* most frames the video source delivers before vid.read() returns ret = False
MaxFrames == 2
\* most chunks the model lets sit in audio_queue (queue.Queue() itself is unbounded)
MaxQueue == 5
\* how many of the latest entries of the local list `frames` the model keeps
MaxKeep == 2

\* chunks carry their production number modulo SeqMod
SeqMod == MaxQueue + MaxKeep + 2

(* ------------------------------ inputs --------------------------------- *)
None == "None"
NoStep == [id |-> 0, action |-> 0, tool |-> 0]
NoContext == [step |-> NoStep, visual_detected |-> FALSE, user_audio_text |-> None]
\* return values of cv2.waitKey(10): no key (-1), 'n', 'q', and 'n' with a
\* modifier bit above the low byte
Keys == {-1, 110, 113, 366}
\* the guide file's JSON: with a "steps" list of n steps, or without the key
Guide(n) == [i \in 1..n |-> [id |-> i, action |-> i, tool |-> i]]
GuideFiles ==
    {[has_steps |-> FALSE, steps |-> <<>>]}
        \cup {[has_steps |-> TRUE, steps |-> Guide(n)] : n \in 0..MaxSteps}
\* results of whisper_model.transcribe: a dict with "text" (possibly empty) or without it
TranscribeResults == {"speech", "", "no_text_key"}

VARIABLES
    guide_data,       \* content of the guide file (json.load)
    video_ok,         \* what vid.isOpened() answers
    video_frames,     \* frames the video source still delivers
    pc,               \* position of the main thread in run_igqa
    repair_steps,     \* run_igqa local
    vid,              \* the capture handle: "none", "open", "released"
    step_index,       \* run_igqa local
    ret,              \* run_igqa local, result flag of vid.read()
    visual_detected,  \* run_igqa local
    frames,           \* analyze_audio local (latest MaxKeep entries)
    user_audio,       \* run_igqa local
    context,          \* what generate_feedback was called with
    feedback,         \* run_igqa local
    overlay,          \* step number last drawn by cv2.putText / imshow (0: none)
    key,              \* last value returned by cv2.waitKey
    console,          \* last status line printed by run_igqa
    exception,        \* exception that left run_igqa: "none", "stt", "genai"
    audio_queue,      \* the queue.Queue shared with record_audio
    producer,         \* position of the record_audio thread
    next_seq,         \* production number of the next chunk the device delivers
    consumed,         \* history: number of q.get() calls so far, modulo SeqMod
    put_since_drain,  \* history: a put happened since the last drain loop ended
    stt_calls         \* history: transcribe calls made in the current tick

vars == <<guide_data, video_ok, video_frames, pc, repair_steps, vid, step_index,
          ret, visual_detected, frames, user_audio, context, feedback, overlay,
          key, console, exception, audio_queue, producer, next_seq, consumed,
          put_since_drain, stt_calls>>

main_vars == <<pc, repair_steps, vid, step_index, ret, visual_detected, frames,
               user_audio, context, feedback, overlay, key, console, exception,
               video_frames, stt_calls>>

(* ------------------------------ helpers -------------------------------- *)
\* data.get("steps", [])
load_repair_steps_from_igga(data) == IF data.has_steps THEN data.steps ELSE <<>>

\* result.get("text", "")
ResultText(result) == IF result = "no_text_key" THEN "" ELSE result

\* `user_audio or ""`: None and the empty string both become ""
OrEmpty(x) == IF x = None \/ x = "" THEN "" ELSE x

\* cv2.waitKey(10) & 0xFF == ord('n')
AdvanceKey(k) == (k % 256) = 110

\* frames.append(x), of which the model keeps the latest MaxKeep entries
FramesAppend(fs, x) ==
    LET all == Append(fs, x)
    IN  IF Len(all) > MaxKeep THEN SubSeq(all, Len(all) - MaxKeep + 1, Len(all)) ELSE all

Init ==
    /\ guide_data \in GuideFiles
    /\ video_ok \in BOOLEAN
    /\ video_frames \in 0..MaxFrames
    /\ pc = "load"
    /\ repair_steps = <<>>
    /\ vid = "none"
    /\ step_index = 0
    /\ ret = FALSE
    /\ visual_detected = FALSE
    /\ frames = <<>>
    /\ user_audio = None
    /\ context = NoContext
    /\ feedback = None
    /\ overlay = 0
    /\ key = -1
    /\ console = "starting"
    /\ exception = "none"
    /\ audio_queue = <<>>
    /\ producer = "unstarted"
    /\ next_seq = 0
    /\ consumed = 0
    /\ put_since_drain = FALSE
    /\ stt_calls = 0

(* --------------------------- run_igqa: set-up -------------------------- *)
\* LoadGuide without the `if not repair_steps: return` of lines 126-128
LoadGuide_NoEmptyCheck ==
    /\ pc = "load"
    /\ repair_steps' = load_repair_steps_from_igga(guide_data)
    /\ console' = "loading"
    /\ pc' = "open"
    /\ UNCHANGED <<guide_data, video_ok, video_frames, vid, step_index, ret,
                   visual_detected, frames, user_audio, context, feedback, overlay,
                   key, exception, audio_queue, producer, next_seq, consumed,
                   put_since_drain, stt_calls>>

\* lines 124-128
LoadGuide ==
    /\ pc = "load"
    /\ repair_steps' = load_repair_steps_from_igga(guide_data)
    /\ IF Len(repair_steps') = 0
       THEN console' = "no_steps" /\ pc' = "returned"
       ELSE console' = "loading" /\ pc' = "open"
    /\ UNCHANGED <<guide_data, video_ok, video_frames, vid, step_index, ret,
                   visual_detected, frames, user_audio, context, feedback, overlay,
                   key, exception, audio_queue, producer, next_seq, consumed,
                   put_since_drain, stt_calls>>

\* lines 130-134
OpenVideo ==
    /\ pc = "open"
    /\ IF video_ok
       THEN vid' = "open" /\ console' = "opening" /\ pc' = "start"
       ELSE vid' = vid /\ console' = "open_failed" /\ pc' = "returned"
    /\ UNCHANGED <<guide_data, video_ok, video_frames, repair_steps, step_index, ret,
                   visual_detected, frames, user_audio, context, feedback, overlay,
                   key, exception, audio_queue, producer, next_seq, consumed,
                   put_since_drain, stt_calls>>

\* lines 136-140: the queue is created, the daemon thread started, the cursor set
StartAudio ==
    /\ pc = "start"
    /\ audio_queue' = <<>>
    /\ producer' = "open"
    /\ step_index' = 0
    /\ console' = "guidance"
    /\ pc' = "loop"
    /\ UNCHANGED <<guide_data, video_ok, video_frames, repair_steps, vid, ret,
                   visual_detected, frames, user_audio, context, feedback, overlay,
                   key, exception, next_seq, consumed, put_since_drain, stt_calls>>

(* --------------------------- run_igqa: the loop ------------------------ *)
\* line 142
LoopTest ==
    /\ pc = "loop"
    /\ IF step_index < Len(repair_steps) THEN pc' = "read" ELSE pc' = "release"
    /\ UNCHANGED <<guide_data, video_ok, video_frames, repair_steps, vid, step_index,
                   ret, visual_detected, frames, user_audio, context, feedback,
                   overlay, key, console, exception, audio_queue, producer, next_seq,
                   consumed, put_since_drain, stt_calls>>

\* lines 143-148 and 70: read a frame; without one, break; with one, derive the
\* visual signal and enter analyze_audio with an empty `frames`
ReadFrame ==
    /\ pc = "read"
    /\ IF video_frames = 0
       THEN /\ ret' = FALSE
            /\ pc' = "release"
            /\ UNCHANGED <<video_frames, visual_detected, frames, stt_calls>>
       ELSE /\ ret' = TRUE
            /\ video_frames' = video_frames - 1
            /\ visual_detected' \in BOOLEAN
            /\ frames' = <<>>
            /\ stt_calls' = 0
            /\ pc' = "drain"
    /\ UNCHANGED <<guide_data, video_ok, repair_steps, vid, step_index, user_audio,
                   context, feedback, overlay, key, console, exception, audio_queue,
                   producer, next_seq, consumed, put_since_drain>>

\* line 71: `while not queue_audio.empty()`
DrainTest ==
    /\ pc = "drain"
    /\ IF Len(audio_queue) = 0
       THEN pc' = "reduce" /\ put_since_drain' = FALSE
       ELSE pc' = "get" /\ put_since_drain' = put_since_drain
    /\ UNCHANGED <<guide_data, video_ok, video_frames, repair_steps, vid, step_index,
                   ret, visual_detected, frames, user_audio, context, feedback,
                   overlay, key, console, exception, audio_queue, producer, next_seq,
                   consumed, stt_calls>>

\* DrainGet taking the newest chunk instead of the oldest
DrainGet_Newest ==
    /\ pc = "get"
    /\ Len(audio_queue) > 0
    /\ frames' = FramesAppend(frames, audio_queue[Len(audio_queue)])
    /\ audio_queue' = SubSeq(audio_queue, 1, Len(audio_queue) - 1)
    /\ consumed' = (consumed + 1) % SeqMod
    /\ pc' = "drain"
    /\ UNCHANGED <<guide_data, video_ok, video_frames, repair_steps, vid, step_index,
                   ret, visual_detected, user_audio, context, feedback, overlay, key,
                   console, exception, producer, next_seq, put_since_drain, stt_calls>>

\* line 72: queue_audio.get() blocks while the queue is empty
DrainGet ==
    /\ pc = "get"
    /\ Len(audio_queue) > 0
    /\ frames' = FramesAppend(frames, Head(audio_queue))
    /\ audio_queue' = Tail(audio_queue)
    /\ consumed' = (consumed + 1) % SeqMod
    /\ pc' = "drain"
    /\ UNCHANGED <<guide_data, video_ok, video_frames, repair_steps, vid, step_index,
                   ret, visual_detected, user_audio, context, feedback, overlay, key,
                   console, exception, producer, next_seq, put_since_drain, stt_calls>>

\* Reduce without the `if not frames: return None` of lines 73-74
Reduce_AlwaysTranscribe ==
    /\ pc = "reduce"
    /\ stt_calls' = stt_calls + 1
    /\ \/ \E result \in TranscribeResults :
            /\ user_audio' = ResultText(result)
            /\ pc' = "feedback"
            /\ UNCHANGED exception
       \/ /\ exception' = "stt"
          /\ pc' = "raised"
          /\ UNCHANGED user_audio
    /\ UNCHANGED <<guide_data, video_ok, video_frames, repair_steps, vid, step_index,
                   ret, visual_detected, frames, context, feedback, overlay, key,
                   console, audio_queue, producer, next_seq, consumed, put_since_drain>>

\* lines 73-77: no frames, no call; otherwise one transcribe call, whose fault
\* is an exception nothing in run_igqa catches
Reduce ==
    /\ pc = "reduce"
    /\ IF Len(frames) = 0
       THEN /\ user_audio' = None
            /\ pc' = "feedback"
            /\ UNCHANGED <<stt_calls, exception>>
       ELSE /\ stt_calls' = stt_calls + 1
            /\ \/ \E result \in TranscribeResults :
                    /\ user_audio' = ResultText(result)
                    /\ pc' = "feedback"
                    /\ UNCHANGED exception
               \/ /\ exception' = "stt"
                  /\ pc' = "raised"
                  /\ UNCHANGED user_audio
    /\ UNCHANGED <<guide_data, video_ok, video_frames, repair_steps, vid, step_index,
                   ret, visual_detected, frames, context, feedback, overlay, key,
                   console, audio_queue, producer, next_seq, consumed, put_since_drain>>

\* lines 149-151 and 95-115: the step is looked up, the request assembled and
\* sent; a failing generate_content raises out of generate_feedback and run_igqa
generate_feedback ==
    /\ pc = "feedback"
    /\ context' = [step |-> repair_steps[step_index + 1],
                   visual_detected |-> visual_detected,
                   user_audio_text |-> OrEmpty(user_audio)]
    /\ \/ /\ feedback' = "text"
          /\ pc' = "render"
          /\ UNCHANGED exception
       \/ /\ exception' = "genai"
          /\ pc' = "raised"
          /\ UNCHANGED feedback
    /\ UNCHANGED <<guide_data, video_ok, video_frames, repair_steps, vid, step_index,
                   ret, visual_detected, frames, user_audio, overlay, key, console,
                   audio_queue, producer, next_seq, consumed, put_since_drain,
                   stt_calls>>

\* Render advancing on any pressed key instead of on 'n' only
Render_AdvanceOnAnyKey ==
    /\ pc = "render"
    /\ overlay' = step_index + 1
    /\ key' \in Keys
    /\ step_index' = IF key' # -1 THEN step_index + 1 ELSE step_index
    /\ pc' = "loop"
    /\ UNCHANGED <<guide_data, video_ok, video_frames, repair_steps, vid, ret,
                   visual_detected, frames, user_audio, context, feedback, console,
                   exception, audio_queue, producer, next_seq, consumed,
                   put_since_drain, stt_calls>>

\* lines 152-162: print, overlay, imshow, the key test and the cursor
Render ==
    /\ pc = "render"
    /\ overlay' = step_index + 1
    /\ key' \in Keys
    /\ step_index' = IF AdvanceKey(key') THEN step_index + 1 ELSE step_index
    /\ pc' = "loop"
    /\ UNCHANGED <<guide_data, video_ok, video_frames, repair_steps, vid, ret,
                   visual_detected, frames, user_audio, context, feedback, console,
                   exception, audio_queue, producer, next_seq, consumed,
                   put_since_drain, stt_calls>>

\* lines 164-166
Release ==
    /\ pc = "release"
    /\ vid' = "released"
    /\ console' = "complete"
    /\ pc' = "returned"
    /\ UNCHANGED <<guide_data, video_ok, video_frames, repair_steps, step_index, ret,
                   visual_detected, frames, user_audio, context, feedback, overlay,
                   key, exception, audio_queue, producer, next_seq, consumed,
                   put_since_drain, stt_calls>>

(* ----------------------------- record_audio ---------------------------- *)
\* lines 59-60: opening the input stream succeeds or raises in the thread
AudioOpen ==
    /\ producer = "open"
    /\ \/ producer' = "read"
       \/ producer' = "raised"
    /\ UNCHANGED <<guide_data, video_ok, audio_queue, next_seq, consumed,
                   put_since_drain, main_vars>>

\* line 62: q.put(stream.read(512)); a failing read raises in the thread
AudioRead ==
    /\ producer = "read"
    /\ \/ /\ Len(audio_queue) < MaxQueue
          /\ audio_queue' = Append(audio_queue, next_seq)
          /\ next_seq' = (next_seq + 1) % SeqMod
          /\ put_since_drain' = TRUE
          /\ UNCHANGED producer
       \/ /\ producer' = "raised"
          /\ UNCHANGED <<audio_queue, next_seq, put_since_drain>>
    /\ UNCHANGED <<guide_data, video_ok, consumed, main_vars>>

run_igqa ==
    \/ LoadGuide
    \/ OpenVideo
    \/ StartAudio
    \/ LoopTest
    \/ ReadFrame
    \/ DrainTest
    \/ DrainGet
    \/ Reduce
    \/ generate_feedback
    \/ Render
    \/ Release

record_audio ==
    \/ AudioOpen
    \/ AudioRead

Next ==
    \/ run_igqa
    \/ record_audio

Spec == Init /\ [][Next]_vars

\* both threads are scheduled: a thread that can take a step eventually takes one
FairSpec == Spec /\ WF_vars(run_igqa) /\ WF_vars(record_audio)

(* ------------------------------ claims --------------------------------- *)
\* the ring run of `len` production numbers starting at `start`
Run(start, len) == [i \in 1..len |-> (start + SeqMod + i - 1) % SeqMod]

\* the session is over: run_igqa went through lines 164-166 and returned
SessionEnded == pc = "returned" /\ vid = "released"
\* the loop was left by its condition (line 142), not by the break of line 145
Completed == pc \in {"release", "returned"} /\ ret
\* the loop was left by the break of line 145
Aborted == pc \in {"release", "returned"} /\ vid # "none" /\ ~ret
\* positions of run_igqa inside the loop
RunningPcs == {"loop", "read", "drain", "get", "reduce", "feedback", "render"}

\* C1: with capacity 4 (the scenario of the claim) the number of buffered
\* chunks never exceeds the capacity, whatever the producer pushes between
\* two drains.
C1_CapacityRespected == Len(audio_queue) <= 4

\* C2: the cursor stays within 0..n, moves only by +1 and only in the step
\* that saw the advance key; the step handed to generate_feedback and drawn
\* is guide[cursor] with cursor < n; and, for a guide of n >= 1 steps, the
\* loop is left by its condition exactly when cursor = n.
C2_CursorOrder ==
    /\ [](step_index \in 0..Len(repair_steps))
    /\ [][\/ step_index' = step_index
          \/ /\ step_index' = step_index + 1
             /\ pc = "render"
             /\ AdvanceKey(key')]_vars
    /\ [](pc \in {"feedback", "render"} => step_index < Len(repair_steps))
    /\ [](pc = "render" => context.step = repair_steps[step_index + 1])
    /\ [][(pc = "render" /\ pc' = "loop") => overlay' = context.step.id]_vars
    /\ []((Len(repair_steps) >= 1 /\ pc \in {"release", "returned"})
            => (Completed <=> step_index = Len(repair_steps)))

\* a two-step guide walked to its end: both steps were drawn, the second last
C2_Witness ==
    /\ pc = "returned"
    /\ Len(repair_steps) = 2
    /\ step_index = 2
    /\ overlay = 2
    /\ Completed

\* C3: a session whose video source ran out of frames is not reported as
\* complete.
C3_AbortedNotReportedComplete == (Aborted /\ pc = "returned") => console # "complete"

\* C4: with a guide of zero steps run_igqa returns from its set-up: the video
\* source is never opened, the audio thread never started, no tick executed.
C4_EmptyGuideNeverRuns ==
    Len(load_repair_steps_from_igga(guide_data)) = 0
        => /\ pc \in {"load", "returned"}
           /\ vid = "none"
           /\ producer = "unstarted"
           /\ audio_queue = <<>>
           /\ context = NoContext
           /\ overlay = 0
           /\ console \in {"starting", "no_steps"}

\* a guide file whose "steps" list is empty, after run_igqa returned
C4_Witness ==
    /\ guide_data.has_steps
    /\ Len(guide_data.steps) = 0
    /\ video_ok
    /\ video_frames > 0
    /\ pc = "returned"
    /\ console = "no_steps"

\* C5: a failed reasoning-engine call leaves the session running with a
\* degraded feedback value.
C5_FaultKeepsRunning ==
    exception = "genai" => (pc \in RunningPcs /\ feedback = "unavailable")

\* C6: once the session has ended, the producer thread is no longer running.
C6_ProducerStopsWithSession == SessionEnded => producer \notin {"open", "read"}

\* C7: the queue always holds, in production order, exactly the chunks
\* produced and not yet removed; `frames` holds the chunks removed last, in
\* production order, so that successive drains continue each other without
\* loss, duplicate or reordering; get() always finds a chunk; the drain loop
\* ends on an empty queue; and a drain that ends with no put since the
\* previous drain ended returns nothing.
C7_DrainFifo ==
    /\ [](/\ audio_queue = Run(consumed, Len(audio_queue))
          /\ (consumed + Len(audio_queue)) % SeqMod = next_seq)
    /\ [](frames = Run(consumed - Len(frames), Len(frames)))
    /\ [](pc = "get" => Len(audio_queue) > 0)
    /\ [][(pc = "get" /\ pc' = "drain") => Len(frames') = IF Len(frames) < MaxKeep THEN Len(frames) + 1
                                                               ELSE MaxKeep]_vars
    /\ [][(pc = "drain" /\ pc' = "reduce") => Len(audio_queue') = 0]_vars
    /\ [][(pc = "drain" /\ pc' = "reduce" /\ ~put_since_drain) => Len(frames') = 0]_vars

\* a drain that returned chunks and ended, with a chunk produced after its end
C7_Witness ==
    /\ pc = "reduce"
    /\ Len(frames) = 2
    /\ Len(audio_queue) = 1
    /\ consumed >= MaxQueue

\* C8: every drain loop that starts ends.
C8_DrainTerminates == (pc = "drain") ~> (pc = "reduce")

\* C9: the speech-to-text engine is called at most once per tick, exactly once
\* when the drain returned a chunk and not at all when it returned none, and
\* then the transcript of the feedback request is the empty text.
C9_TranscribeOnlyWithAudio ==
    /\ stt_calls <= 1
    /\ (pc \in {"feedback", "render"} /\ Len(frames) = 0)
            => (stt_calls = 0 /\ user_audio = None)
    /\ (pc \in {"feedback", "render"} /\ Len(frames) > 0) => stt_calls = 1
    /\ (pc = "raised" /\ exception = "stt") => (stt_calls = 1 /\ Len(frames) > 0)
    /\ pc = "render" => context.user_audio_text = OrEmpty(user_audio)
    /\ (pc = "render" /\ Len(frames) = 0) => context.user_audio_text = ""

\* a tick whose drain found nothing, after its feedback request was sent, in a
\* session whose earlier tick did transcribe
C9_Witness ==
    /\ pc = "render"
    /\ Len(frames) = 0
    /\ context.user_audio_text = ""
    /\ stt_calls = 0
    /\ consumed > 0

\* C10: the producer never ends by an exception of its thread: when the audio
\* device fails it stops by returning.
C10_ProducerStopsCleanly == producer # "raised"

====
